---- MODULE Spec2Model ----
(***************************************************************************)
(* Model of the OpenMRS-OpenIMIS integration middleware (src/main.py) and  *)
(* of the requests its Streamlit front end (src/app.py) sends to it.       *)
(*                                                                         *)
(* The server keeps three module-level dicts (patients, encounters,        *)
(* claims).  Every route handler is an `async def` without any `await`,    *)
(* so a handler runs to completion on the event loop once it is entered:   *)
(* requests of different clients are in flight at the same time, and the   *)
(* server picks them up in any order, one whole handler at a time.         *)
(*                                                                         *)
(* Strings the code inspects (dates, diagnosis, references) are sequences  *)
(* of one-character strings; identifiers made by uuid.uuid4() are fresh    *)
(* naturals drawn from a counter; money is in whole currency units.        *)
(* Listings are modelled as the set of their elements (the order of a      *)
(* dict listing is not modelled); the month list, which the code sorts, is *)
(* a sequence.                                                             *)
(***************************************************************************)
EXTENDS Integers, Sequences, FiniteSets, TLC

\* --------------------------------------------------------------- records
\* the fields of the pydantic models of main.py and of the messages between
\* app.py and the server, with their Python types; every record below is
\* written with its fields in the order in which the names first occur here
PatientModel ==
    [full_name |-> "str", age |-> "int", gender |-> "str", chief_complaint |-> "str",
     patient_id |-> "Optional[str]", created_at |-> "Optional[str]"]

EncounterModel ==
    [patient_id |-> "str", created_at |-> "Optional[str]", diagnosis |-> "str",
     treatment |-> "str", visit_date |-> "Optional[str]",
     attending_clinician |-> "Optional[str]", encounter_id |-> "Optional[str]"]

ClaimItemModel ==
    [sequence |-> "int", code |-> "str", servicedDate |-> "str",
     unitPrice |-> "Money", net |-> "Money"]

FHIRClaimModel ==
    [resourceType |-> "str", id |-> "Optional[str]", status |-> "str",
     type |-> "ClaimType", patient |-> "Reference", encounter |-> "Reference",
     created |-> "str", provider |-> "Optional[Reference]",
     item |-> "List[ClaimItem]", total |-> "Money"]

RequestModel ==
    [encounter_id |-> "path", status |-> "query", patient |-> "json",
     encounter |-> "json", op |-> "route", claim |-> "json", claim_id |-> "path"]

ResponseModel ==
    [id |-> "json", status |-> "status_code", op |-> "route", doc |-> "json",
     fresh |-> "bool", overlapped |-> "set"]

\* app.py:298-305  the encounter_data the form posts
EncounterData ==
    [patient_id |-> "str", diagnosis |-> "str", treatment |-> "str",
     visit_date |-> "str", attending_clinician |-> "Optional[str]",
     total_price |-> "float"]

\* ------------------------------------------------------------------ bounds
MaxUuid == 3          \* uuid4() values handed out in one run
MaxTick == 1          \* datetime.now() returns the instants 0..MaxTick

\* the seeds of the builtin hash() a run may start with (PYTHONHASHSEED)
HashSeeds == {0, 1}

Clients == {"c1", "c2"}

VARIABLES
    patients,     \* main.py: patients = {}    patient_id -> Patient
    encounters,   \* main.py: encounters = {}  patient_id -> list of Encounter
    claims,       \* main.py: claims = {}      claim_id -> FHIRClaim
    uuids,        \* number of uuid4() values handed out so far
    now,          \* the latest value datetime.now() returned
    hashSeed,     \* the per-process seed of the builtin hash()
    inflight,     \* per client: the request sent and not yet handled
    resp,         \* per client: the last response received
    afterReset,   \* a reset was handled and no create/submit succeeded since
    posted        \* the previews a front end has posted as claims since the last reset

vars == <<patients, encounters, claims, uuids, now, hashSeed, inflight, resp, afterReset,
          posted>>

store == <<patients, encounters, claims>>

\* ----------------------------------------------------------------- strings
Digits == <<"0", "1", "2", "3", "4", "5", "6", "7", "8", "9">>

Digit(n) == Digits[(n % 10) + 1]

\* str.startswith
StartsWith(s, prefix) ==
    /\ Len(prefix) <= Len(s)
    /\ SubSeq(s, 1, Len(prefix)) = prefix

\* s[:n]
Prefix(s, n) == SubSeq(s, 1, IF Len(s) < n THEN Len(s) ELSE n)

MonthLen == 7

\* datetime.now().isoformat(): month 04 + tick of year 2024, "YYYY-MM-DDTHH"
IsoFormat(t) ==
    <<"2", "0", "2", "4", "-", Digit((4 + t) \div 10), Digit(4 + t), "-",
      "1", "5", "T", "0", "9">>

\* datetime.now().date().isoformat()
DateIsoFormat(t) == SubSeq(IsoFormat(t), 1, 10)

\* f"Patient/{patient_id}" and patient_ref.split("/")[-1]
MakeRef(kind, id) == <<kind, id>>

RefId(ref) == ref[Len(ref)]

NoRef == <<>>

\* the builtin hash() of a str: a function of the characters that is fixed
\* within a run and differs from seed to seed (a stand-in for SipHash)
RECURSIVE CharSum(_)
CharSum(s) ==
    IF s = <<>> THEN 0
    ELSE (IF Head(s) \in {"a", "e", "i", "o", "u"} THEN 3 ELSE 7) + 2 * CharSum(Tail(s))

\* variant: a hash salted anew whenever the clock has moved
PyHashPerCall(s) == ((hashSeed + now) * 7919 + 1) * (CharSum(s) + 13) - 5000

PyHash(s) == (hashSeed * 7919 + 1) * (CharSum(s) + 13) - 5000

Abs(n) == IF n < 0 THEN -n ELSE n

\* f"{n:03d}" and f"{n:04d}"
Format3(n) == <<Digit(n \div 100), Digit(n \div 10), Digit(n)>>

Format4(n) == <<Digit(n \div 1000)>> \o Format3(n % 1000)

\* -------------------------------------------------------------- documents
NoId == 0             \* Optional id field holding None

BaseAmount == 100

\* variant: the complexity factor by floor division, len(diagnosis) // 20
TotalAmountFloorDiv(diagnosis) == BaseAmount * (1 + Len(diagnosis) \div 20)

\* len(diagnosis) / 20 and round(base_amount * (1 + complexity_factor), 2)
TotalAmount(diagnosis) == (BaseAmount * (20 + Len(diagnosis))) \div 20

TreatmentCode(diagnosis) ==
    <<"T", "R", "E", "A", "T">> \o Format3(Abs(PyHash(diagnosis)) % 1000)

ProviderRef(clinician) ==
    MakeRef("Practitioner", Format4(Abs(PyHash(clinician)) % 10000))

\* the places <<patient_id, index>> where an encounter with this id is stored
EncounterPlaces(encounter_id) ==
    {pl \in UNION {{<<pid, i>> : i \in 1..Len(encounters[pid])} : pid \in DOMAIN encounters} :
        encounters[pl[1]][pl[2]].encounter_id = encounter_id}

\* variant: the preview is given the id of its encounter
PreviewIdOfEncounter(encounter_id) == encounter_id

\* main.py:105-138  the claim dict has no "id" key
PreviewId(encounter_id) == NoId

\* the claim dict built at main.py:105-143 for the encounter stored at place
\* pl, when datetime.now() returns t
ClaimFor(pl, t) ==
    LET patient_id == pl[1]
        enc == encounters[pl[1]][pl[2]]
        total_amount == TotalAmount(enc.diagnosis)
    IN  [resourceType |-> "Claim",
         id |-> PreviewId(enc.encounter_id),
         status |-> "active",
         type |-> "institutional",
         patient |-> MakeRef("Patient", patient_id),
         encounter |-> MakeRef("Encounter", enc.encounter_id),
         created |-> IsoFormat(t),
         provider |-> IF enc.attending_clinician # <<>>
                      THEN ProviderRef(enc.attending_clinician)
                      ELSE NoRef,
         item |-> <<[sequence |-> 1,
                     code |-> TreatmentCode(enc.diagnosis),
                     servicedDate |-> enc.visit_date,
                     unitPrice |-> total_amount,
                     net |-> total_amount]>>,
         total |-> total_amount]

\* map_encounter_to_claim: the claim, or the HTTPException(404) it raises
MapEncounterToClaim(encounter_id, t) ==
    IF EncounterPlaces(encounter_id) # {}
    THEN [claim |-> ClaimFor(CHOOSE pl \in EncounterPlaces(encounter_id) : TRUE, t),
          raised |-> 0]
    ELSE [claim |-> <<>>, raised |-> 404]

\* FHIRClaim: pydantic accepts the body iff resourceType is "Claim"
\* (the other required fields are present in every document sent here)
ValidFHIRClaim(doc) == doc.resourceType = "Claim"

\* ------------------------------------------------------------------ inputs
Flu == <<"F", "l", "u">>

Hypertension == <<"H", "y", "p", "e", "r", "t", "e", "n", "s", "i", "o", "n">>

VisitDate == <<"2", "0", "2", "4", "-", "0", "5", "-", "2", "0">>

Clinician == <<"D", "r", "A">>

JuneDate == <<"2", "0", "2", "4", "-", "0", "6", "-", "0", "1">>

\* bodies of POST /patient (server-assigned fields may be sent by the caller)
PatientInputs ==
    {[full_name |-> "Ana", age |-> 30, gender |-> "F", chief_complaint |-> "Batuk",
      patient_id |-> NoId, created_at |-> <<>>],
     [full_name |-> "", age |-> 150, gender |-> "", chief_complaint |-> "",
      patient_id |-> 2, created_at |-> VisitDate]}

\* bodies of POST /encounter; total_price is what app.py:304 adds to them
EncounterInputs ==
    {[patient_id |-> pid, created_at |-> <<>>, diagnosis |-> t[1],
      treatment |-> "obat", visit_date |-> t[2], attending_clinician |-> t[3],
      encounter_id |-> NoId, total_price |-> t[4]] :
        pid \in 1..MaxUuid,
        t \in {<<Flu, <<>>, <<>>, 0>>, <<Hypertension, VisitDate, Clinician, 150>>}}

ClaimLine(amount) ==
    [sequence |-> 1, code |-> <<"X">>, servicedDate |-> VisitDate,
     unitPrice |-> amount, net |-> amount]

\* bodies of POST /claim written by a caller rather than taken from a preview
HandWrittenClaims ==
    {[resourceType |-> t[1], id |-> NoId, status |-> t[2], type |-> "institutional",
      patient |-> MakeRef("Patient", 1), encounter |-> MakeRef("Encounter", 2),
      created |-> t[5], provider |-> NoRef, item |-> t[3], total |-> t[4]] :
        t \in {<<"Claim", "accepted", <<ClaimLine(100), ClaimLine(50)>>, 150, JuneDate>>,
               <<"Claim", "active", <<>>, 0, VisitDate>>,
               <<"Claim", "active", <<ClaimLine(100)>>, 250, VisitDate>>,
               <<"Bundle", "active", <<ClaimLine(100)>>, 100, VisitDate>>}}

TargetStatuses == {"accepted", "rejected"}

\* -------------------------------------------------------------- the store
EmptyDict == [k \in {} |-> {}]

NoRequest == [op |-> "none"]

NoResponse == [id |-> NoId, status |-> 0, op |-> "none", doc |-> <<>>,
               fresh |-> FALSE, overlapped |-> {}]

\* the response a client records: the operation, the HTTP status, the id the
\* exchange was about (the one assigned, or the claim id of the path) and the
\* document returned; fresh and overlapped are bookkeeping: no reset was
\* handled since, and the clients whose requests were in flight meanwhile
Response(c, op, status, id, doc) ==
    [id |-> id, status |-> status, op |-> op, doc |-> doc, fresh |-> TRUE,
     overlapped |-> {d \in Clients \ {c} : inflight[d].op # "none"}]

Init ==
    /\ patients = EmptyDict
    /\ encounters = EmptyDict
    /\ claims = EmptyDict
    /\ uuids = 0
    /\ now = 0
    /\ hashSeed \in HashSeeds
    /\ inflight = [c \in Clients |-> NoRequest]
    /\ resp = [c \in Clients |-> NoResponse]
    /\ afterReset = FALSE
    /\ posted = {}

Idle(c) == inflight[c].op = "none"

Pending(c, op) == inflight[c].op = op

Reply(c, r) ==
    /\ inflight' = [inflight EXCEPT ![c] = NoRequest]
    /\ resp' = [resp EXCEPT ![c] = r]

\* the instants a call of datetime.now() may return: the clock does not run
\* backwards
ClockReads == now..MaxTick

\* -------------------------------------------------------- clients (app.py)
\* a client that sends a request lets go of the response it was looking at
Send(c, req) ==
    /\ Idle(c)
    /\ inflight' = [inflight EXCEPT ![c] = req]
    /\ resp' = [resp EXCEPT ![c] = NoResponse]
    /\ UNCHANGED <<patients, encounters, claims, uuids, now, hashSeed, afterReset>>

SendCreatePatient(c) ==
    /\ \E p \in PatientInputs : Send(c, [patient |-> p, op |-> "create_patient"])
    /\ UNCHANGED posted

SendCreateEncounter(c) ==
    /\ \E e \in EncounterInputs : Send(c, [encounter |-> e, op |-> "create_encounter"])
    /\ UNCHANGED posted

SendPreview(c) ==
    /\ \E eid \in 1..MaxUuid : Send(c, [encounter_id |-> eid, op |-> "preview"])
    /\ UNCHANGED posted

\* app.py:372-373 posts the preview it was shown; other callers post their own
SendSubmitPreview(c) ==
    /\ resp[c].op = "preview"
    /\ resp[c].status = 200
    /\ Send(c, [op |-> "submit_claim", claim |-> resp[c].doc])
    /\ posted' = posted \cup {resp[c].doc}

SendSubmitClaim(c) ==
    /\ \E doc \in HandWrittenClaims : Send(c, [op |-> "submit_claim", claim |-> doc])
    /\ UNCHANGED posted

\* app.py:406-425: PUT claims/{id}/process?status=...
SendProcess(c) ==
    /\ \E id \in 1..MaxUuid, s \in TargetStatuses :
          Send(c, [status |-> s, op |-> "process", claim_id |-> id])
    /\ UNCHANGED posted

SendReset(c) ==
    /\ Send(c, [op |-> "reset"])
    /\ UNCHANGED posted

\* ------------------------------------------------------ handlers (main.py)
\* d[k] = v
DictPut(d, k, v) == [x \in DOMAIN d \cup {k} |-> IF x = k THEN v ELSE d[x]]

\* str(uuid.uuid4())
NewUuid == uuids + 1

\* variant: an id and a timestamp sent by the caller are kept
NewPatientAsSent(body, patient_id, t) ==
    [body EXCEPT !.patient_id = IF @ = NoId THEN patient_id ELSE @,
                 !.created_at = IF @ = <<>> THEN IsoFormat(t) ELSE @]

\* main.py:159-160  the id and the timestamp are assigned, whatever was sent
NewPatient(body, patient_id, t) ==
    [body EXCEPT !.patient_id = patient_id, !.created_at = IsoFormat(t)]

\* create_patient, main.py:156-170
HandleCreatePatient(c) ==
    /\ Pending(c, "create_patient")
    /\ uuids < MaxUuid
    /\ \E t \in ClockReads :
        LET patient == NewPatient(inflight[c].patient, NewUuid, t)
        IN  /\ patients' = DictPut(patients, patient.patient_id, patient)
            /\ Reply(c, Response(c, "create_patient", 201, patient.patient_id, patient))
            /\ now' = t
    /\ uuids' = NewUuid
    /\ afterReset' = FALSE
    /\ UNCHANGED <<encounters, claims, hashSeed, posted>>

\* variant: the existence check is left out
PatientMissingSkipped(patient_id) == FALSE

\* main.py:181  encounter.patient_id not in patients
PatientMissing(patient_id) == patient_id \notin DOMAIN patients

\* variant: the bucket is assigned afresh instead of appended to
AppendEncounterOverwrite(encs, enc) == DictPut(encs, enc.patient_id, <<enc>>)

\* main.py:191-195  create the bucket if absent, then append
AppendEncounter(encs, enc) ==
    LET withBucket == IF enc.patient_id \notin DOMAIN encs
                      THEN DictPut(encs, enc.patient_id, <<>>)
                      ELSE encs
    IN  [withBucket EXCEPT ![enc.patient_id] = Append(@, enc)]

\* main.py:39-46  the body as pydantic parses it into an Encounter: the
\* declared fields, and nothing of a key the model does not declare
ParseEncounter(json) ==
    [patient_id |-> json.patient_id, created_at |-> json.created_at,
     diagnosis |-> json.diagnosis, treatment |-> json.treatment,
     visit_date |-> json.visit_date,
     attending_clinician |-> json.attending_clinician,
     encounter_id |-> json.encounter_id]

\* create_encounter, main.py:178-202; the clock is read for created_at and
\* read again for the default visit date
HandleCreateEncounter(c) ==
    /\ Pending(c, "create_encounter")
    /\ LET body == ParseEncounter(inflight[c].encounter)
       IN  IF PatientMissing(body.patient_id)
           THEN /\ Reply(c, Response(c, "create_encounter", 404, NoId, <<>>))
                /\ UNCHANGED <<patients, encounters, claims, uuids, now, hashSeed, afterReset,
                            posted>>
           ELSE /\ uuids < MaxUuid
                /\ \E t \in ClockReads :
                    \E t2 \in IF body.visit_date = <<>> THEN t..MaxTick ELSE {t} :
                    LET encounter ==
                            [body EXCEPT !.encounter_id = NewUuid,
                                         !.created_at = IsoFormat(t),
                                         !.visit_date = IF body.visit_date = <<>>
                                                        THEN DateIsoFormat(t2)
                                                        ELSE body.visit_date]
                    IN  /\ encounters' = AppendEncounter(encounters, encounter)
                        /\ Reply(c, Response(c, "create_encounter", 201,
                                             encounter.encounter_id, encounter))
                        /\ now' = t2
                /\ uuids' = NewUuid
                /\ afterReset' = FALSE
                /\ UNCHANGED <<patients, claims, hashSeed, posted>>

\* main.py:243-245  the claim as stored: only the id is assigned
StoredClaim(doc, claim_id) == [doc EXCEPT !.id = claim_id]

\* submit_claim, main.py:240-254; a body pydantic refuses is answered 422
\* (the timestamp of the acknowledgement is not recorded)
HandleSubmitClaim(c) ==
    /\ Pending(c, "submit_claim")
    /\ LET doc == inflight[c].claim
       IN  IF ~ValidFHIRClaim(doc)
           THEN /\ Reply(c, Response(c, "submit_claim", 422, NoId, <<>>))
                /\ UNCHANGED <<patients, encounters, claims, uuids, now, hashSeed, afterReset,
                            posted>>
           ELSE /\ uuids < MaxUuid
                /\ claims' = DictPut(claims, NewUuid, StoredClaim(doc, NewUuid))
                /\ Reply(c, Response(c, "submit_claim", 201, NewUuid, <<>>))
                /\ uuids' = NewUuid
                /\ afterReset' = FALSE
                /\ UNCHANGED <<patients, encounters, now, hashSeed, posted>>

\* main.py:264-268  every exception of the mapper, its HTTPException(404)
\* included, is caught and raised again as HTTPException(400)
PreviewStatus(mapped) == IF mapped.raised # 0 THEN 400 ELSE 200

\* generate_claim_preview, main.py:261-268
HandlePreview(c) ==
    /\ Pending(c, "preview")
    /\ \E t \in ClockReads :
        LET mapped == MapEncounterToClaim(inflight[c].encounter_id, t)
        IN  /\ Reply(c, Response(c, "preview", PreviewStatus(mapped), NoId, mapped.claim))
            /\ now' = IF mapped.raised = 0 THEN t ELSE now
    /\ UNCHANGED <<patients, encounters, claims, uuids, hashSeed, afterReset, posted>>

\* variant: a process route that overwrites the status of a stored claim
ClaimsAfterProcessOverwrite(claim_id, status) ==
    IF claim_id \in DOMAIN claims
    THEN [claims EXCEPT ![claim_id].status = status]
    ELSE claims

\* main.py has no route for PUT /claims/{id}/process: the router answers
\* 404 and no handler runs, so the claims dict is what it was
ClaimsAfterProcess(claim_id, status) == claims

ProcessStatus(claim_id) == 404

HandleProcess(c) ==
    /\ Pending(c, "process")
    /\ claims' = ClaimsAfterProcess(inflight[c].claim_id, inflight[c].status)
    /\ Reply(c, Response(c, "process", ProcessStatus(inflight[c].claim_id),
                          inflight[c].claim_id, <<>>))
    /\ UNCHANGED <<patients, encounters, uuids, now, hashSeed, afterReset, posted>>

\* variant: claims.clear() is forgotten
ClearedStoreKeepsClaims ==
    [patients |-> EmptyDict, encounters |-> EmptyDict, claims |-> claims]

\* main.py:354-356  the three dicts after clear()
ClearedStore ==
    [patients |-> EmptyDict, encounters |-> EmptyDict, claims |-> EmptyDict]

\* reset_system, main.py:351-357
HandleReset(c) ==
    /\ Pending(c, "reset")
    /\ patients' = ClearedStore.patients
    /\ encounters' = ClearedStore.encounters
    /\ claims' = ClearedStore.claims
    /\ inflight' = [inflight EXCEPT ![c] = NoRequest]
    /\ resp' = [d \in Clients |->
                  IF d = c THEN Response(c, "reset", 200, NoId, <<>>)
                  ELSE [resp[d] EXCEPT !.fresh = FALSE]]
    /\ afterReset' = TRUE
    /\ posted' = {}
    /\ UNCHANGED <<uuids, now, hashSeed>>

\* the front end: one client, one request at a time
FrontEnd == "c1"

Next ==
    \/ SendCreatePatient(FrontEnd)
    \/ SendCreateEncounter(FrontEnd)
    \/ SendPreview(FrontEnd)
    \/ SendSubmitPreview(FrontEnd)
    \/ SendSubmitClaim(FrontEnd)
    \/ SendProcess(FrontEnd)
    \/ SendReset(FrontEnd)
    \/ HandleCreatePatient(FrontEnd)
    \/ HandleCreateEncounter(FrontEnd)
    \/ HandleSubmitClaim(FrontEnd)
    \/ HandlePreview(FrontEnd)
    \/ HandleProcess(FrontEnd)
    \/ HandleReset(FrontEnd)

Spec == Init /\ [][Next]_vars

\* the front end recording patients, encounters and claims: the operations
\* that write the three dicts the listings and reports read
NextRecords ==
    \/ SendCreatePatient(FrontEnd)
    \/ SendCreateEncounter(FrontEnd)
    \/ SendSubmitClaim(FrontEnd)
    \/ SendReset(FrontEnd)
    \/ HandleCreatePatient(FrontEnd)
    \/ HandleCreateEncounter(FrontEnd)
    \/ HandleSubmitClaim(FrontEnd)
    \/ HandleReset(FrontEnd)

SpecRecords == Init /\ [][NextRecords]_vars

\* several clients whose requests to the record store are in flight together
NextConcurrent ==
    \E c \in Clients :
        \/ SendCreatePatient(c)
        \/ SendCreateEncounter(c)
        \/ SendReset(c)
        \/ HandleCreatePatient(c)
        \/ HandleCreateEncounter(c)
        \/ HandleReset(c)

\* these handlers call neither hash() nor branch on the clock: the runs start
\* with one seed and at the last instant of the clock
InitConcurrent ==
    /\ patients = EmptyDict
    /\ encounters = EmptyDict
    /\ claims = EmptyDict
    /\ uuids = 0
    /\ now = MaxTick
    /\ hashSeed = 0
    /\ inflight = [c \in Clients |-> NoRequest]
    /\ resp = [c \in Clients |-> NoResponse]
    /\ afterReset = FALSE
    /\ posted = {}

SpecConcurrent == InitConcurrent /\ [][NextConcurrent]_vars

\* ----------------------------------------------------- listings and reports
Months ==
    {<<"2", "0", "2", "4", "-", "0", "4">>,
     <<"2", "0", "2", "4", "-", "0", "5">>,
     <<"2", "0", "2", "4", "-", "0", "6">>}

\* variant: only the year of the month key is compared
FilterByYear(date_str, target_month) == StartsWith(date_str, Prefix(target_month, 4))

\* filter_by_month, main.py:149-154
FilterByMonth(date_str, target_month) == StartsWith(date_str, target_month)

\* every stored encounter, whatever its bucket
AllEncounters ==
    UNION {{encounters[pid][i] : i \in 1..Len(encounters[pid])} : pid \in DOMAIN encounters}

\* get_all_patients, main.py:212-214
ListPatients == {patients[pid] : pid \in DOMAIN patients}

\* get_patient, main.py:172-176
GetPatient(patient_id) ==
    IF patient_id \notin DOMAIN patients THEN [status |-> 404, body |-> <<>>]
    ELSE [status |-> 200, body |-> patients[patient_id]]

\* get_encounter, main.py:231-238
GetEncounter(encounter_id) ==
    IF \E enc \in AllEncounters : enc.encounter_id = encounter_id
    THEN [status |-> 200,
          body |-> CHOOSE enc \in AllEncounters : enc.encounter_id = encounter_id]
    ELSE [status |-> 404, body |-> <<>>]

\* get_patient_encounters, main.py:204-210
PatientEncounters(patient_id) ==
    IF patient_id \notin DOMAIN patients THEN [status |-> 404, body |-> <<>>]
    ELSE IF patient_id \notin DOMAIN encounters THEN [status |-> 200, body |-> <<>>]
    ELSE [status |-> 200, body |-> encounters[patient_id]]

\* list_encounters, main.py:216-229; patients[patient_id] raises KeyError,
\* answered 500 by the general exception handler (main.py:371-380)
ListEncounters ==
    IF \E pid \in DOMAIN encounters : pid \notin DOMAIN patients
    THEN [status |-> 500, body |-> {}]
    ELSE [status |-> 200,
          body |-> {[diagnosis |-> IF Len(enc.diagnosis) > 50
                                   THEN Prefix(enc.diagnosis, 50) \o <<".", ".", ".">>
                                   ELSE enc.diagnosis,
                     visit_date |-> enc.visit_date,
                     encounter_id |-> enc.encounter_id,
                     patient_name |-> patients[enc.patient_id].full_name] :
                        enc \in AllEncounters}]

\* list_claims, main.py:256-259
ListClaims == {claims[id] : id \in DOMAIN claims}

\* get_patients_by_month, main.py:270-278
PatientsByMonth(month) ==
    {patients[pid] : pid \in {q \in DOMAIN patients :
        FilterByMonth(Prefix(patients[q].created_at, MonthLen), month)}}

\* get_encounters_by_month without a diagnosis filter, main.py:280-298
EncountersByMonth(month) ==
    {enc \in AllEncounters : FilterByMonth(Prefix(enc.visit_date, MonthLen), month)}

\* get_claims_by_month, main.py:300-319; status "" stands for status=None;
\* each claim comes with the key patient_name (no name, or one) the loop at
\* main.py:313-317 adds to it
ClaimsByMonth(month, status) ==
    {[claim |-> claims[id],
      patient_name |-> IF RefId(claims[id].patient) \in DOMAIN patients
                       THEN <<patients[RefId(claims[id].patient)].full_name>>
                       ELSE <<>>] :
        id \in {k \in DOMAIN claims :
            /\ FilterByMonth(Prefix(claims[k].created, MonthLen), month)
            /\ (status = "" \/ claims[k].status = status)}}

\* the set all_dates of get_available_months, main.py:324-337
AllDates ==
    {Prefix(patients[pid].created_at, MonthLen) : pid \in DOMAIN patients}
    \cup {Prefix(enc.visit_date, MonthLen) : enc \in AllEncounters}
    \cup {Prefix(claims[id].created, MonthLen) : id \in DOMAIN claims}

\* ord(ch) of the characters of a date string
Ord(ch) ==
    IF ch = "-" THEN 45
    ELSE IF ch = "T" THEN 84
    ELSE 48 + (CHOOSE i \in 0..9 : Digits[i + 1] = ch)

\* a < b on str: by code point, a proper prefix first
RECURSIVE StrLess(_, _)
StrLess(a, b) ==
    IF b = <<>> THEN FALSE
    ELSE IF a = <<>> THEN TRUE
    ELSE IF Head(a) = Head(b) THEN StrLess(Tail(a), Tail(b))
    ELSE Ord(Head(a)) < Ord(Head(b))

\* variant: sorted(list(all_dates)) without reverse=True
RECURSIVE SortedAscending(_)
SortedAscending(S) ==
    IF S = {} THEN <<>>
    ELSE LET least == CHOOSE x \in S : \A y \in S \ {x} : StrLess(x, y)
         IN  <<least>> \o SortedAscending(S \ {least})

\* sorted(list(all_dates), reverse=True), main.py:339
RECURSIVE SortedReverse(_)
SortedReverse(S) ==
    IF S = {} THEN <<>>
    ELSE LET greatest == CHOOSE x \in S : \A y \in S \ {x} : StrLess(y, x)
         IN  <<greatest>> \o SortedReverse(S \ {greatest})

\* get_available_months, main.py:321-339
AvailableMonths == SortedReverse(AllDates)

RECURSIVE SumLen(_, _)
SumLen(d, keys) ==
    IF keys = {} THEN 0
    ELSE LET k == CHOOSE x \in keys : TRUE
         IN  Len(d[k]) + SumLen(d, keys \ {k})

\* get_system_stats, main.py:341-349
SystemStats ==
    [total_patients |-> Cardinality(DOMAIN patients),
     total_encounters |-> SumLen(encounters, DOMAIN encounters),
     total_claims |-> Cardinality(DOMAIN claims)]

\* the stored records have the fields of their models
TypeOK ==
    /\ \A pid \in DOMAIN patients : DOMAIN patients[pid] = DOMAIN PatientModel
    /\ \A enc \in AllEncounters : DOMAIN enc = DOMAIN EncounterModel
    /\ \A id \in DOMAIN claims :
          /\ DOMAIN claims[id] = DOMAIN FHIRClaimModel
          /\ \A i \in 1..Len(claims[id].item) :
                DOMAIN claims[id].item[i] = DOMAIN ClaimItemModel
    /\ \A c \in Clients :
          /\ DOMAIN inflight[c] \subseteq DOMAIN RequestModel
          /\ DOMAIN resp[c] = DOMAIN ResponseModel

\* ------------------------------------------------------------ properties
Handled(c, op) == Pending(c, op) /\ inflight'[c].op = "none"

Terminal == {"accepted", "rejected"}

RECURSIVE SumNet(_)
SumNet(items) == IF items = <<>> THEN 0 ELSE Head(items).net + SumNet(Tail(items))

\* C1: a create-encounter whose patient id is not a key of the patient
\* collection is answered 404 (NotFound) and leaves the patient, encounter
\* and claim collections exactly as they were.
C1_UnknownPatientNotFound ==
    [][\A c \in Clients :
          (/\ Handled(c, "create_encounter")
           /\ inflight[c].encounter.patient_id \notin DOMAIN patients)
          => (/\ resp'[c].op = "create_encounter"
              /\ resp'[c].status = 404
              /\ store' = store)]_vars

\* a create-encounter was refused although patients exist
C1_Witness ==
    \E c \in Clients :
        /\ resp[c].op = "create_encounter"
        /\ resp[c].status = 404
        /\ DOMAIN patients # {}

\* C2: whatever status the submitted document carries, the claim stored under
\* the newly assigned id has status active right after the submission.
C2_SubmitForcesActive ==
    [][\A c \in Clients :
          (/\ Handled(c, "submit_claim")
           /\ resp'[c].status = 201)
          => (/\ resp'[c].id \in DOMAIN claims'
              /\ claims'[resp'[c].id].status = "active")]_vars

\* C3: submitting a document whose item list is empty fails (422, the
\* answer to an invalid body) and leaves the claim collection unchanged.
C3_EmptyItemsRejected ==
    [][\A c \in Clients :
          (/\ Handled(c, "submit_claim")
           /\ inflight[c].claim.item = <<>>)
          => (/\ resp'[c].status = 422
              /\ claims' = claims)]_vars

\* C4: every stored claim has a total equal to the sum of the net amounts
\* of its line items.
C4_TotalIsSumOfNets ==
    \A id \in DOMAIN claims : claims[id].total = SumNet(claims[id].item)

\* C5: the status of a stored claim changes only from active to accepted or
\* rejected; once accepted or rejected it never changes while the claim is
\* stored.
C5_TerminalStatus ==
    [][\A id \in DOMAIN claims \cap DOMAIN claims' :
          /\ claims[id].status \in Terminal => claims'[id].status = claims[id].status
          /\ claims'[id].status # claims[id].status
                => (claims[id].status = "active" /\ claims'[id].status \in Terminal)]_vars

\* a process request for a stored claim that is accepted or rejected was answered
C5_Witness ==
    \E c \in Clients :
        /\ resp[c].op = "process"
        /\ resp[c].id \in DOMAIN claims
        /\ claims[resp[c].id].status \in Terminal

\* C6: process-claim of a stored claim sets its status to the target status
\* and succeeds; of an unknown id it fails with 404 and changes no claim.
C6_ProcessClaim ==
    [][\A c \in Clients :
          Handled(c, "process")
          => IF inflight[c].claim_id \in DOMAIN claims
             THEN /\ resp'[c].status = 200
                  /\ inflight[c].claim_id \in DOMAIN claims'
                  /\ claims'[inflight[c].claim_id].status = inflight[c].status
             ELSE /\ resp'[c].status = 404
                  /\ claims' = claims]_vars

\* C7: a preview for an encounter id that matches no stored encounter is
\* answered 404 (NotFound), no other status, and changes no collection.
C7_PreviewUnknownNotFound ==
    [][\A c \in Clients :
          (/\ Handled(c, "preview")
           /\ \A enc \in AllEncounters : enc.encounter_id # inflight[c].encounter_id)
          => (/\ resp'[c].status = 404
              /\ store' = store)]_vars

\* C8: every stored claim references a patient id that is a key of the
\* patient collection and an encounter stored under that patient.
C8_ClaimReferencesResolve ==
    \A id \in DOMAIN claims :
        LET pid == RefId(claims[id].patient)
            eid == RefId(claims[id].encounter)
        IN  /\ pid \in DOMAIN patients
            /\ pid \in DOMAIN encounters
            /\ \E i \in 1..Len(encounters[pid]) : encounters[pid][i].encounter_id = eid

C10_BothEncountersRecorded ==
    \A c1, c2 \in Clients :
        (/\ c1 # c2
         /\ resp[c1].op = "create_encounter" /\ resp[c1].status = 201 /\ resp[c1].fresh
         /\ resp[c2].op = "create_encounter" /\ resp[c2].status = 201 /\ resp[c2].fresh
         /\ resp[c1].doc.patient_id = resp[c2].doc.patient_id)
        => LET pid == resp[c1].doc.patient_id
           IN  /\ pid \in DOMAIN encounters
               /\ \E i, j \in 1..Len(encounters[pid]) :
                     /\ i # j
                     /\ encounters[pid][i].encounter_id = resp[c1].id
                     /\ encounters[pid][j].encounter_id = resp[c2].id

\* both requests were in flight together, the bucket did not exist before,
\* and both have been answered
C10_Witness ==
    \E c1, c2 \in Clients :
        /\ c1 # c2
        /\ resp[c1].op = "create_encounter" /\ resp[c1].status = 201 /\ resp[c1].fresh
        /\ resp[c2].op = "create_encounter" /\ resp[c2].status = 201 /\ resp[c2].fresh
        /\ resp[c1].doc.patient_id = resp[c2].doc.patient_id
        /\ c2 \in resp[c1].overlapped
        /\ Len(encounters[resp[c1].doc.patient_id]) = 2

\* C11: under any interleaving of create-encounter, create-patient and reset
\* of several clients, every patient id that has an encounter bucket is a key
\* of the patient collection, so list-all-encounters resolves every owner.
C11_BucketsHavePatients ==
    /\ DOMAIN encounters \subseteq DOMAIN patients
    /\ ListEncounters.status = 200

\* a reset was handled while the other client's request was in flight, and
\* that client's create-encounter was then refused although patients had
\* been created
C11_Witness ==
    \E c1, c2 \in Clients :
        /\ c1 # c2
        /\ resp[c2].op = "reset"
        /\ c1 \in resp[c2].overlapped
        /\ resp[c1].op = "create_encounter"
        /\ resp[c1].status = 404
        /\ uuids >= 1

\* the value of a decimal digit and the calendar month a "YYYY-MM" key names
DigitValue(ch) == CHOOSE i \in 0..9 : Digits[i + 1] = ch

MonthOrdinal(m) ==
    12 * (1000 * DigitValue(m[1]) + 100 * DigitValue(m[2])
          + 10 * DigitValue(m[3]) + DigitValue(m[4]))
    + 10 * DigitValue(m[6]) + DigitValue(m[7])

\* C12: available-months has no duplicates, lists the most recent month
\* first, holds exactly the first seven characters of every patient creation
\* time, encounter visit date and claim creation time, and is empty exactly
\* when there is no patient, no encounter and no claim.
C12_AvailableMonths ==
    \A months \in {AvailableMonths} :
    LET present == {SubSeq(patients[pid].created_at, 1, 7) : pid \in DOMAIN patients}
                   \cup {SubSeq(enc.visit_date, 1, 7) : enc \in AllEncounters}
                   \cup {SubSeq(claims[id].created, 1, 7) : id \in DOMAIN claims}
    IN  /\ \A i, j \in 1..Len(months) : i # j => months[i] # months[j]
        /\ \A i, j \in 1..Len(months) :
              i < j => MonthOrdinal(months[i]) > MonthOrdinal(months[j])
        /\ {months[i] : i \in 1..Len(months)} = present
        /\ (months = <<>>) <=>
              (DOMAIN patients = {} /\ AllEncounters = {} /\ DOMAIN claims = {})

\* two months are listed and at least three records carry them, so one
\* month was collected more than once
C12_Witness ==
    /\ Len(AvailableMonths) = 2
    /\ Cardinality(DOMAIN patients) + Cardinality(AllEncounters)
           + Cardinality(DOMAIN claims) >= 3

\* C13: for every month key and every status filter (none included), the
\* claims report holds exactly the stored claims whose created timestamp has
\* the key as its first seven characters and whose status is the one asked
\* for, each as it is stored.
C13_ClaimsInMonth ==
    \A m \in Months, s \in {"", "active", "accepted", "rejected"} :
        \A report \in {ClaimsByMonth(m, s)} :
            /\ {r.claim.id : r \in report}
                 = {id \in DOMAIN claims :
                       /\ SubSeq(claims[id].created, 1, 7) = m
                       /\ (s # "" => claims[id].status = s)}
            /\ \A r \in report : r.claim = claims[r.claim.id]

\* claims of two months and of two statuses are stored
C13_Witness ==
    \E id1, id2 \in DOMAIN claims :
        /\ SubSeq(claims[id1].created, 1, 7) # SubSeq(claims[id2].created, 1, 7)
        /\ claims[id1].status # claims[id2].status

\* C14: a create-patient is answered 201 with a new, non-empty id; get of
\* that id returns the name, age, gender and chief complaint that were sent,
\* the id the server drew and a timestamp of the server's clock, whatever id
\* or timestamp the caller sent; and get of a stored patient returns the same
\* record after every step that is not a reset.
C14_PatientRoundTrip ==
    [][/\ \A c \in Clients :
             Handled(c, "create_patient")
             => \E id \in DOMAIN patients' :
                LET sent == inflight[c].patient
                    got == GetPatient(id)'
                IN  /\ resp'[c].status = 201
                    /\ resp'[c].id = id
                    /\ id # NoId
                    /\ id \notin DOMAIN patients
                    /\ got.status = 200
                    /\ got.body.full_name = sent.full_name
                    /\ got.body.age = sent.age
                    /\ got.body.gender = sent.gender
                    /\ got.body.chief_complaint = sent.chief_complaint
                    /\ got.body.patient_id = id
                    /\ got.body.created_at # <<>>
                    /\ \E t \in 0..MaxTick : got.body.created_at = IsoFormat(t)
       /\ (\A c \in Clients : ~Handled(c, "reset"))
             => \A pid \in DOMAIN patients : GetPatient(pid)' = GetPatient(pid)]_vars

\* a patient sent with an id and a timestamp of the caller's was created
\* after another patient, and an encounter was recorded since
C14_Witness ==
    \E pid \in DOMAIN patients :
        /\ patients[pid].age = 150
        /\ pid # 2
        /\ Cardinality(DOMAIN patients) = 2
        /\ DOMAIN encounters # {}

\* C15: the encounter returned by a successful create-encounter, and the one
\* get-encounter and the month report return for its id afterwards, carry a
\* total price equal to the price the caller sent.
C15_EncounterTotalPrice ==
    [][\A c \in Clients :
          (/\ Handled(c, "create_encounter")
           /\ resp'[c].status = 201)
          => /\ "total_price" \in DOMAIN resp'[c].doc
             /\ resp'[c].doc.total_price = inflight[c].encounter.total_price
             /\ \A enc \in AllEncounters' :
                   enc.encounter_id = resp'[c].id
                   => /\ "total_price" \in DOMAIN enc
                      /\ enc.total_price = inflight[c].encounter.total_price]_vars

\* C16: a create-patient with an empty name, gender or chief complaint, or
\* with an age outside 0..120, is answered with a validation error (422, or
\* 400) and stores nothing; so every stored patient has a non-empty name,
\* gender and chief complaint and an age in 0..120.
C16_PatientValidation ==
    [][/\ \A c \in Clients :
             (/\ Handled(c, "create_patient")
              /\ \/ inflight[c].patient.full_name = ""
                 \/ inflight[c].patient.gender = ""
                 \/ inflight[c].patient.chief_complaint = ""
                 \/ inflight[c].patient.age \notin 0..120)
             => (/\ resp'[c].status \in {400, 422}
                 /\ patients' = patients)
       /\ \A pid \in DOMAIN patients' :
             /\ patients'[pid].full_name # ""
             /\ patients'[pid].gender # ""
             /\ patients'[pid].chief_complaint # ""
             /\ patients'[pid].age \in 0..120]_vars

\* a preview without its created timestamp
WithoutCreated(doc) == [doc EXCEPT !.created = <<>>]

\* C17: a preview the front end holds, and every preview it has posted since
\* the last reset, is the document a preview of the same encounter yields in
\* the present state at any instant the clock may return (service code, line
\* item, total, patient, encounter and provider references, status), but for
\* the created timestamp.
C17_SynthesizerDeterministic ==
    \A doc \in posted \cup {resp[c].doc : c \in {d \in Clients :
                               resp[d].op = "preview" /\ resp[d].status = 200}} :
        \A t \in ClockReads :
            LET again == MapEncounterToClaim(RefId(doc.encounter), t)
            IN  /\ again.raised = 0
                /\ WithoutCreated(again.claim) = WithoutCreated(doc)

\* a preview was posted and stored as a claim, and the same encounter was
\* previewed again after the clock had moved on
C17_Witness ==
    \E c \in Clients, doc \in posted :
        /\ resp[c].op = "preview"
        /\ resp[c].status = 200
        /\ resp[c].doc.encounter = doc.encounter
        /\ resp[c].doc.created # doc.created
        /\ \E id \in DOMAIN claims : claims[id].encounter = doc.encounter

\* C18: a preview a client holds has exactly one line item, with sequence
\* number 1, the visit date of the encounter as serviced date, and unit price
\* and net both equal to the total; the total is 100 + 5 x the length of the
\* diagnosis (160 for a diagnosis of 12 characters), so it is the sum of the
\* nets; and the status is active.
C18_PreviewLineItem ==
    \A c \in Clients :
        (resp[c].op = "preview" /\ resp[c].status = 200 /\ resp[c].fresh)
        => LET doc == resp[c].doc
               enc == GetEncounter(RefId(doc.encounter)).body
           IN  /\ Len(doc.item) = 1
               /\ doc.item[1].sequence = 1
               /\ doc.item[1].servicedDate = enc.visit_date
               /\ doc.item[1].unitPrice = doc.total
               /\ doc.item[1].net = doc.total
               /\ doc.total = 100 + 5 * Len(enc.diagnosis)
               /\ (Len(enc.diagnosis) = 12 => doc.total = 160)
               /\ doc.total = SumNet(doc.item)
               /\ doc.status = "active"

\* the preview of an encounter whose diagnosis has 12 characters
C18_Witness ==
    \E c \in Clients :
        /\ resp[c].op = "preview"
        /\ resp[c].status = 200
        /\ resp[c].fresh
        /\ Len(GetEncounter(RefId(resp[c].doc.encounter)).body.diagnosis) = 12
        /\ resp[c].doc.total = 160

\* C19: a preview, answered 200 or not, leaves the patient, encounter and
\* claim collections and the ids handed out as they were, and a preview
\* answered 200 carries no id; a claim enters the claim collection, and so
\* list-claims, only in the step that handles a submit, under the id that
\* step assigns and answers with.
C19_PreviewReadOnly ==
    [][/\ \A c \in Clients :
             Handled(c, "preview")
             => /\ store' = store
                /\ uuids' = uuids
                /\ ListClaims' = ListClaims
                /\ resp'[c].id = NoId
                /\ (resp'[c].status = 200 => resp'[c].doc.id = NoId)
       /\ \A id \in DOMAIN claims' \ DOMAIN claims :
             /\ claims'[id].id = id
             /\ id # NoId
             /\ \E c \in Clients :
                   /\ Handled(c, "submit_claim")
                   /\ resp'[c].status = 201
                   /\ resp'[c].id = id]_vars

\* a preview was answered 200 while a claim submitted from an earlier preview
\* is stored
C19_Witness ==
    \E c \in Clients :
        /\ resp[c].op = "preview"
        /\ resp[c].status = 200
        /\ posted # {}
        /\ DOMAIN claims # {}

====
